---- MODULE Spec2Model ----
(***************************************************************************)
(* Kraken price tracker (src/main.py): a scheduler loop that reads column A *)
(* of a worksheet, resolves every symbol to a Kraken pair through a cached  *)
(* pair catalog, fetches the last trade price and batch-writes column B.    *)
(*                                                                          *)
(* Python strings that the program transforms (symbols, asset codes, price  *)
(* strings) are sequences of one-character strings, so that upper(),        *)
(* strip() and replace() are computed and not assumed.  Pair identifiers,   *)
(* which the program only stores and passes on, are plain strings.          *)
(***************************************************************************)
EXTENDS Integers, Sequences, FiniteSets, TLC

VARIABLES
    env,                  \* startup environment: credential payload, spreadsheet
    pc,                   \* position of the single thread of control
    clock,                \* wall clock, time.time()
    pairs_by_base_quote,  \* KrakenPairsCache._pairs_by_base_quote
    last_refresh,         \* KrakenPairsCache._last_refresh
    refreshed,            \* history: some refresh has completed successfully
    col,                  \* update_sheet_once: col (inputs == Tail(col))
    old_pairs,            \* history: the pair mapping when refresh_if_needed was called
    cat_resp,             \* refresh_if_needed: the provider's answer to the AssetPairs request
    ridx,                 \* refresh_if_needed: position of the for loop over pairs
    mapping,              \* refresh_if_needed: the local mapping being built
    idx,                  \* update_sheet_once: position of the for loop over inputs
    cells_to_update,      \* update_sheet_once: the staged cells
    calls,                \* history: calls this pass made to the worksheet and the provider
    last_resp,            \* history: the provider's answer to the latest ticker request
    exc,                  \* the exception that ended this pass in main's handler, or "none"
    batch,                \* history: the argument of this pass's update_cells call
    log,                  \* history: messages this pass logged
    call,                 \* lookup harness: the arguments of the find_pair call under study
    ret                   \* lookup harness: what that call computed

vars == <<env, pc, clock, pairs_by_base_quote, last_refresh, refreshed, col,
          old_pairs, cat_resp, ridx, mapping, idx, cells_to_update, calls,
          last_resp, exc, batch, log, call, ret>>

harnessVars == <<call, ret>>
cacheVars == <<pairs_by_base_quote, last_refresh, refreshed>>
refreshVars == <<old_pairs, cat_resp, ridx, mapping>>
rowVars == <<idx, cells_to_update, last_resp, batch>>

----------------------------------------------------------------------------
(* Bounds of the model *)

MaxRows == 2        \* data rows of a generated worksheet column
MaxTicks == 11      \* poll intervals over which the clock is followed
StartTime == 1000   \* time.time() when the loop starts
MaxSymLen == 3      \* length of a generated find_pair base argument
MaxCatalog == 2     \* entries of a generated AssetPairs result

----------------------------------------------------------------------------
(* Configuration, src/main.py:12-18 *)

QUOTE_CCY == <<"U", "S", "D">>
POLL_INTERVAL_SECS == 60
ASSET_PAIRS_REFRESH_SECS == 600
start_row == 2
OUT_COL == 2

MaxClock == StartTime + MaxTicks * POLL_INTERVAL_SECS

Min(a, b) == IF a < b THEN a ELSE b

----------------------------------------------------------------------------
(* Python str operations *)

Lowers == <<"a", "b", "c", "d", "e", "f", "g", "h", "i", "j", "k", "l", "m",
            "n", "o", "p", "q", "r", "s", "t", "u", "v", "w", "x", "y", "z">>
Uppers == <<"A", "B", "C", "D", "E", "F", "G", "H", "I", "J", "K", "L", "M",
            "N", "O", "P", "Q", "R", "S", "T", "U", "V", "W", "X", "Y", "Z">>
Whitespace == {" ", "\t"}

UpperOf == [c \in {Lowers[i] : i \in 1..Len(Lowers)} |->
               Uppers[CHOOSE i \in 1..Len(Lowers) : Lowers[i] = c]]

UpperChar(c) == IF c \in DOMAIN UpperOf THEN UpperOf[c] ELSE c

\* str.upper()
Upper(s) == [i \in 1..Len(s) |-> UpperChar(s[i])]

\* str.strip() of a sequence of characters
StripSeq(s) ==
    LET keep == {i \in 1..Len(s) : s[i] \notin Whitespace}
    IN  IF keep = {} THEN <<>>
        ELSE SubSeq(s, CHOOSE i \in keep : \A j \in keep : i <= j,
                       CHOOSE i \in keep : \A j \in keep : i >= j)

\* str.strip(); v \in {s} names the value of s, which is then computed once
Strip(s) == CHOOSE r \in {StripSeq(v) : v \in {s}} : TRUE

\* str.replace(ch, ""): every occurrence of ch is removed
Replace(s, ch) == SelectSeq(s, LAMBDA c : c # ch)

----------------------------------------------------------------------------
(* Python values that reach a worksheet cell: a float or a str *)

Num(n) == [type |-> "float", num |-> n, str |-> ""]
Str(t) == [type |-> "str", num |-> 0, str |-> t]

None == "<None>"

\* dict as a function; {} is the function with the empty domain
EmptyMap == [k \in {} |-> None]
Put(m, key, v) == [k \in (DOMAIN m) \cup {key} |-> IF k = key THEN v ELSE m[k]]

----------------------------------------------------------------------------
(* Alias table, src/main.py:24-43 *)

BASE_ALIASES ==
    { << <<"B","T","C">>, <<"X","B","T">> >>,
      << <<"X","B","T">>, <<"X","B","T">> >>,
      << <<"D","O","G","E">>, <<"X","D","G">> >>,
      << <<"X","D","G">>, <<"X","D","G">> >>,
      << <<"B","I","T","C","O","I","N">>, <<"X","B","T">> >>,
      << <<"E","T","H","E","R","E","U","M">>, <<"E","T","H">> >>,
      << <<"E","T","H">>, <<"E","T","H">> >>,
      << <<"A","D","A">>, <<"A","D","A">> >>,
      << <<"C","A","R","D","A","N","O">>, <<"A","D","A">> >>,
      << <<"X","R","P">>, <<"X","R","P">> >>,
      << <<"R","I","P","P","L","E">>, <<"X","R","P">> >>,
      << <<"S","O","L">>, <<"S","O","L">> >>,
      << <<"S","O","L","A","N","A">>, <<"S","O","L">> >>,
      << <<"L","T","C">>, <<"L","T","C">> >>,
      << <<"L","I","T","E","C","O","I","N">>, <<"L","T","C">> >>,
      << <<"B","C","H">>, <<"B","C","H">> >>,
      << <<"B","I","T","C","O","I","N"," ","C","A","S","H">>, <<"B","C","H">> >> }

AliasOf == [k \in {p[1] : p \in BASE_ALIASES} |->
               (CHOOSE p \in BASE_ALIASES : p[1] = k)[2]]

\* BASE_ALIASES.get(k, default)
AliasGet(k, default) == IF k \in DOMAIN AliasOf THEN AliasOf[k] ELSE default

----------------------------------------------------------------------------
(* KrakenPairsCache.find_pair, src/main.py:89-103 *)

\* the exact key only
Lookup_ExactOnly(pairs, base_up, base_norm, quote_norm) ==
    IF <<base_norm, quote_norm>> \in DOMAIN pairs
    THEN pairs[<<base_norm, quote_norm>>]
    ELSE None

\* a miss answers a made-up pair name
Lookup_GuessesName(pairs, base_up, base_norm, quote_norm) ==
    IF <<base_norm, quote_norm>> \in DOMAIN pairs
    THEN pairs[<<base_norm, quote_norm>>]
    ELSE "GUESSED"

\* lines 92-103: the exact key, then the list of keys in order
Lookup(pairs, base_up, base_norm, quote_norm) ==
    LET keys == << <<base_norm, quote_norm>>,
                   <<Replace(base_norm, "X"), Replace(quote_norm, "Z")>>,
                   <<base_up, quote_norm>> >>
        hits == {i \in 1..Len(keys) : keys[i] \in DOMAIN pairs}
    IN  IF <<base_norm, quote_norm>> \in DOMAIN pairs
        THEN pairs[<<base_norm, quote_norm>>]
        ELSE IF hits # {}
             THEN pairs[keys[CHOOSE i \in hits : \A j \in hits : i <= j]]
             ELSE None

\* lines 90-91: base_up is base_input.upper().strip(), base_norm its alias or
\* itself, quote_norm is quote.upper().strip()
find_pair(pairs, base_input, quote) ==
    CHOOSE r \in {Lookup(pairs, base_up, base_norm, quote_norm) :
                    <<base_up, base_norm, quote_norm>> \in
                        {<<b, AliasGet(b, b), Strip(Upper(quote))>> :
                            b \in {Strip(Upper(base_input))}}} : TRUE

\* the alias table is looked up without upper-casing the input
base_norm_CaseSensitive(base_input) ==
    CHOOSE r \in {AliasGet(b, b) : b \in {Strip(base_input)}} : TRUE

\* line 90: BASE_ALIASES.get(base_input.upper().strip(), base_input.upper().strip())
base_norm(base_input) ==
    CHOOSE r \in {AliasGet(b, b) : b \in {Strip(Upper(base_input))}} : TRUE

\* a lookup that hit is remembered under the key as typed
find_pair_effect_Memoizes(base_input, quote, pair_name) ==
    /\ pairs_by_base_quote' =
           Put(pairs_by_base_quote,
               <<Strip(Upper(base_input)), Strip(Upper(quote))>>, pair_name)
    /\ UNCHANGED <<last_refresh, refreshed>>

\* find_pair assigns to no attribute of the cache: it only reads
\* self._pairs_by_base_quote
find_pair_effect(base_input, quote, pair_name) ==
    UNCHANGED <<pairs_by_base_quote, last_refresh, refreshed>>

----------------------------------------------------------------------------
(* Price fetcher, src/main.py:108-119 *)

Digits == <<"0", "1", "2", "3", "4", "5", "6", "7", "8", "9">>
IsDigit(c) == \E d \in 1..Len(Digits) : Digits[d] = c
DigitVal(c) == (CHOOSE d \in 1..Len(Digits) : Digits[d] = c) - 1

RECURSIVE DecimalVal(_)
DecimalVal(s) ==
    IF s = <<>> THEN 0
    ELSE 10 * DecimalVal(SubSeq(s, 1, Len(s) - 1)) + DigitVal(s[Len(s)])

\* float(s), on the price strings of the model: digits parse, anything else raises
ParseFloat(s) ==
    IF s # <<>> /\ \A i \in 1..Len(s) : IsDigit(s[i])
    THEN [raised |-> FALSE, value |-> DecimalVal(s)]
    ELSE [raised |-> TRUE, value |-> 0]

Raised == [raised |-> TRUE, value |-> 0]

\* the error field of the response is not looked at
get_kraken_last_price_NoErrorCheck(resp) ==
    IF ~resp.http_ok THEN Raised
    ELSE IF ~resp.has_result THEN Raised
    ELSE IF ~resp.has_c THEN Raised
    ELSE ParseFloat(resp.last_trade)

\* resp is the provider's answer to the Ticker request
get_kraken_last_price(resp) ==
    IF ~resp.http_ok THEN Raised                 \* requests.get / raise_for_status
    ELSE IF resp.error THEN Raised               \* data.get("error")
    ELSE IF ~resp.has_result THEN Raised         \* data["result"], next(iter(result))
    ELSE IF ~resp.has_c THEN Raised              \* result[first_key]["c"][0]
    ELSE ParseFloat(resp.last_trade)             \* float(last_trade)

----------------------------------------------------------------------------
(* The environment: what the worksheet and the provider may answer *)

Header == <<"T", "i", "c", "k", "e", "r">>
BTC == <<"B", "T", "C">>
NOPE == <<"N", "O", "P", "E">>
eth_padded == <<" ", "e", "t", "h", " ">>
ETH == <<"E", "T", "H">>

\* contents of a data row of column A
Symbols == {<<>>, <<" ">>, BTC, NOPE, eth_padded}

\* header + ["BTC", "", "NOPE", "ETH"]
ExampleColumn == <<Header, BTC, <<>>, NOPE, ETH>>

\* what ws.col_values(1) may return
Columns ==
    {<<>>, ExampleColumn}
    \cup UNION {{<<Header>> \o s : s \in [1..n -> Symbols]} : n \in 0..MaxRows}

\* an entry of the AssetPairs result: pair_name, meta
Entry(name, base, quote) ==
    [name |-> name, is_dict |-> TRUE, base |-> base, quote |-> quote]
E_XBTUSD == Entry("XXBTZUSD", <<"X","X","B","T">>, <<"Z","U","S","D">>)
E_ETHUSD == Entry("XETHZUSD", <<"X","E","T","H">>, <<"Z","U","S","D">>)
E_XTZUSD == Entry("XTZUSD", <<"X","T","Z">>, <<"Z","U","S","D">>)
E_TUSD == Entry("TUSD", <<"T">>, <<"Z","U","S","D">>)
\* meta without a "base": meta.get("base", "") is ""
E_NoBase == Entry("NOBASE", <<>>, <<"Z","U","S","D">>)
\* meta that is no JSON object: meta.get raises
E_Malformed == [name |-> "BAD", is_dict |-> FALSE, base |-> <<>>, quote |-> <<>>]

CatResp(http_ok, error, has_result, pairs) ==
    [sent |-> TRUE, http_ok |-> http_ok, error |-> error,
     has_result |-> has_result, pairs |-> pairs]
NoCatResp ==
    [sent |-> FALSE, http_ok |-> FALSE, error |-> FALSE,
     has_result |-> FALSE, pairs |-> <<>>]

\* what GET /AssetPairs may answer
CatalogResponses ==
    { CatResp(TRUE, FALSE, TRUE, <<E_XBTUSD, E_ETHUSD>>),
      CatResp(TRUE, FALSE, TRUE, <<E_ETHUSD, E_NoBase, E_XTZUSD, E_TUSD>>),
      CatResp(TRUE, FALSE, TRUE, <<>>),
      CatResp(TRUE, FALSE, TRUE, <<E_XTZUSD, E_Malformed, E_XBTUSD>>),
      CatResp(FALSE, FALSE, FALSE, <<>>),
      CatResp(TRUE, TRUE, TRUE, <<E_XBTUSD, E_ETHUSD>>),
      CatResp(TRUE, FALSE, FALSE, <<>>) }

TickResp(http_ok, error, has_result, has_c, last_trade) ==
    [sent |-> TRUE, http_ok |-> http_ok, error |-> error,
     has_result |-> has_result, has_c |-> has_c, last_trade |-> last_trade]
NoTickResp ==
    [sent |-> FALSE, http_ok |-> FALSE, error |-> FALSE,
     has_result |-> FALSE, has_c |-> FALSE, last_trade |-> <<>>]

\* what GET /Ticker may answer
TickerResponses ==
    { TickResp(TRUE, FALSE, TRUE, TRUE, <<"4", "2">>),
      TickResp(FALSE, FALSE, FALSE, FALSE, <<>>),
      TickResp(TRUE, TRUE, TRUE, TRUE, <<"4", "2">>),
      TickResp(TRUE, FALSE, FALSE, FALSE, <<>>),
      TickResp(TRUE, FALSE, TRUE, FALSE, <<>>),
      TickResp(TRUE, FALSE, TRUE, TRUE, <<"a", "b", "c">>) }

CredStates == {"missing", "invalid", "valid"}

----------------------------------------------------------------------------
(* State after module import, src/main.py:62-65, 105 *)

\* the lookup harness is idle while the scheduler loop runs
NoCall == [base_input |-> <<>>, quote |-> <<>>]
NoRet == [base_norm |-> <<>>, pair_name |-> "<unset>"]

ZeroCalls == [reads |-> 0, writes |-> 0, catalog |-> 0, ticker |-> <<>>, find |-> <<>>]

Init ==
    /\ env \in [creds : CredStates, openable : BOOLEAN]
    /\ pc = "auth"
    /\ clock = StartTime
    /\ pairs_by_base_quote = EmptyMap
    /\ last_refresh = 0
    /\ refreshed = FALSE
    /\ col = <<>>
    /\ old_pairs = EmptyMap
    /\ cat_resp = NoCatResp
    /\ ridx = 1
    /\ mapping = EmptyMap
    /\ idx = 1
    /\ cells_to_update = <<>>
    /\ calls = ZeroCalls
    /\ last_resp = NoTickResp
    /\ exc = "none"
    /\ batch = <<>>
    /\ log = {}
    /\ call = NoCall
    /\ ret = NoRet

----------------------------------------------------------------------------
(* main: startup, src/main.py:160-163 *)

\* a failure to authenticate is ignored
GetClient_IgnoreFailure ==
    /\ pc = "auth"
    /\ pc' = "open"
    /\ UNCHANGED <<harnessVars, env, clock, cacheVars, col, refreshVars, rowVars, calls, exc, log>>

\* get_gspread_client(): raises when GOOGLE_CREDS_JSON is missing or unusable;
\* the exception leaves main
GetClient ==
    /\ pc = "auth"
    /\ pc' = IF env.creds = "valid" THEN "open" ELSE "aborted"
    /\ UNCHANGED <<harnessVars, env, clock, cacheVars, col, refreshVars, rowVars, calls, exc, log>>

\* gc.open(SPREADSHEET_NAME): an exception leaves main
OpenSpreadsheet ==
    /\ pc = "open"
    /\ pc' = IF env.openable THEN "update" ELSE "aborted"
    /\ UNCHANGED <<harnessVars, env, clock, cacheVars, col, refreshVars, rowVars, calls, exc, log>>

----------------------------------------------------------------------------
(* main: except Exception around update_sheet_once, src/main.py:166-169 *)

\* the exception leaves the loop
IterationFailed_Propagates(kind, msgs) ==
    /\ pc' = "aborted"
    /\ exc' = kind
    /\ log' = log \cup msgs

\* the handler goes straight to the next turn of the loop
IterationFailed_SkipsSleep(kind, msgs) ==
    /\ pc' = "update"
    /\ exc' = kind
    /\ log' = log \cup msgs \cup {"Run iteration failed"}

IterationFailed(kind, msgs) ==
    /\ pc' = "sleep"
    /\ exc' = kind
    /\ log' = log \cup msgs \cup {"Run iteration failed"}

----------------------------------------------------------------------------
(* update_sheet_once: read, src/main.py:123-131 *)

ReadColumn ==
    /\ pc = "update"
    /\ calls' = [calls EXCEPT !.reads = @ + 1]
    /\ \/ \* sh.worksheet / ws.col_values raises
          /\ IterationFailed("read", {})
          /\ UNCHANGED col
       \/ \E c \in Columns :
             /\ col' = c
             /\ IF Len(c) <= 1
                THEN /\ pc' = "sleep"
                     /\ log' = log \cup {"No tickers found"}
                ELSE /\ pc' = "refresh"
                     /\ log' = log
             /\ UNCHANGED exc
    /\ UNCHANGED <<harnessVars, env, clock, cacheVars, refreshVars, rowVars>>

----------------------------------------------------------------------------
(* KrakenPairsCache.refresh_if_needed, src/main.py:67-87 *)

\* base/quote as keyed: .replace("X", "").replace("Z", "")
StripXZ(code) == Replace(Replace(code, "X"), "Z")

\* refresh_if_needed is called outside any try of update_sheet_once (line 132):
\* what it raises leaves update_sheet_once and reaches main's handler.
\* Variant: the failure is swallowed and the pass goes on with the old cache.
RefreshRaises_Swallowed(msgs) ==
    /\ pc' = "rows"
    /\ exc' = exc
    /\ log' = log \cup msgs

RefreshRaises(msgs) == IterationFailed("refresh", msgs)

\* the cache is still fresh at an age of exactly ASSET_PAIRS_REFRESH_SECS
CacheIsFresh_Inclusive(now) ==
    /\ now - last_refresh <= ASSET_PAIRS_REFRESH_SECS
    /\ pairs_by_base_quote # EmptyMap

\* line 69: now - self._last_refresh < ASSET_PAIRS_REFRESH_SECS and
\* self._pairs_by_base_quote
CacheIsFresh(now) ==
    /\ now - last_refresh < ASSET_PAIRS_REFRESH_SECS
    /\ pairs_by_base_quote # EmptyMap

\* time.time(), the freshness test and the AssetPairs request with its checks
RefreshCheck ==
    /\ pc = "refresh"
    /\ old_pairs' = pairs_by_base_quote
    /\ LET now == clock
       IN  IF CacheIsFresh(now)
           THEN /\ pc' = "rows"
                /\ UNCHANGED <<cat_resp, ridx, mapping, calls, exc, log>>
           ELSE \E resp \in CatalogResponses :
                   /\ cat_resp' = resp
                   /\ calls' = [calls EXCEPT !.catalog = @ + 1]
                   /\ IF ~resp.http_ok \/ resp.error \/ ~resp.has_result
                      THEN /\ RefreshRaises({"Refreshing"})
                           /\ UNCHANGED <<ridx, mapping>>
                      ELSE /\ mapping' = EmptyMap
                           /\ ridx' = 1
                           /\ pc' = "refresh_loop"
                           /\ log' = log \cup {"Refreshing"}
                           /\ UNCHANGED exc
    /\ UNCHANGED <<harnessVars, env, clock, cacheVars, col, rowVars>>

\* the entry is written straight into the cache
StoreEntry_InPlace(key, name) ==
    /\ pairs_by_base_quote' = Put(pairs_by_base_quote, key, name)
    /\ UNCHANGED <<mapping, last_refresh, refreshed>>

\* mapping[(base, quote)] = pair_name, on the local mapping
StoreEntry(key, name) ==
    /\ mapping' = Put(mapping, key, name)
    /\ UNCHANGED cacheVars

\* one turn of: for pair_name, meta in pairs.items()
RefreshEntry ==
    /\ pc = "refresh_loop"
    /\ ridx <= Len(cat_resp.pairs)
    /\ LET e == cat_resp.pairs[ridx]
           base == StripXZ(e.base)
           quote == StripXZ(e.quote)
       IN  IF ~e.is_dict
           THEN /\ RefreshRaises({})
                /\ UNCHANGED <<ridx, mapping, cacheVars>>
           ELSE /\ IF base # <<>> /\ quote # <<>>
                   THEN StoreEntry(<<base, quote>>, e.name)
                   ELSE UNCHANGED <<mapping, cacheVars>>
                /\ ridx' = ridx + 1
                /\ UNCHANGED <<pc, exc, log>>
    /\ UNCHANGED <<harnessVars, env, clock, col, old_pairs, cat_resp, rowVars, calls>>

\* the cache is replaced and the timestamp is left as it was
RefreshCommit_KeepsStamp ==
    /\ pc = "refresh_loop"
    /\ ridx > Len(cat_resp.pairs)
    /\ pairs_by_base_quote' = mapping
    /\ last_refresh' = last_refresh
    /\ refreshed' = TRUE
    /\ log' = log \cup {"Loaded pairs"}
    /\ pc' = "rows"
    /\ UNCHANGED <<harnessVars, env, clock, col, refreshVars, rowVars, calls, exc>>

\* after the loop: the cache and the timestamp are replaced together
RefreshCommit ==
    /\ pc = "refresh_loop"
    /\ ridx > Len(cat_resp.pairs)
    /\ pairs_by_base_quote' = mapping
    /\ last_refresh' = clock
    /\ refreshed' = TRUE
    /\ log' = log \cup {"Loaded pairs"}
    /\ pc' = "rows"
    /\ UNCHANGED <<harnessVars, env, clock, col, refreshVars, rowVars, calls, exc>>

----------------------------------------------------------------------------
(* update_sheet_once: rows and batch write, src/main.py:134-157 *)

Cell(row, c, value) == [row |-> row, col |-> c, value |-> value]

\* the header row is not counted
RowOf_NoHeader(i) == i

\* row = start_row + idx, idx counted from 0
RowOf(i) == start_row + (i - 1)

\* a ticker is requested for every row
NeedsFetch_Always(pair_name) == TRUE

\* if not pair_name: ... else: get_kraken_last_price(pair_name)
NeedsFetch(pair_name) == pair_name # None /\ pair_name # ""

\* the exception of a row leaves the loop
RowRaises_Propagates(row) ==
    /\ IterationFailed("ticker", {})
    /\ UNCHANGED cells_to_update

\* except Exception: stage "ERR" for the row and go on with the next row
RowRaises(row) ==
    /\ cells_to_update' = Append(cells_to_update, Cell(row, OUT_COL, Str("ERR")))
    /\ log' = log \cup {"Failed to fetch price"}
    /\ UNCHANGED <<pc, exc>>

\* one turn of: for idx, raw in enumerate(inputs)
ProcessRow ==
    /\ pc = "rows"
    /\ idx <= Len(col) - 1
    /\ \E symbol_str \in {Strip(Tail(col)[idx])} :
       \E pair_name \in {find_pair(pairs_by_base_quote, symbol_str, QUOTE_CCY)} :
       LET row == RowOf(idx)
       IN  IF symbol_str = <<>>
           THEN UNCHANGED <<cells_to_update, calls, last_resp, log, pc, exc,
                            cacheVars>>
           ELSE IF ~NeedsFetch(pair_name)
           THEN /\ find_pair_effect(symbol_str, QUOTE_CCY, pair_name)
                /\ cells_to_update' =
                       Append(cells_to_update, Cell(row, OUT_COL, Str("N/A")))
                /\ calls' = [calls EXCEPT !.find = Append(@, row)]
                /\ log' = log \cup {"No Kraken pair"}
                /\ UNCHANGED <<last_resp, pc, exc>>
           ELSE \E resp \in TickerResponses :
                  LET price == get_kraken_last_price(resp)
                  IN  /\ find_pair_effect(symbol_str, QUOTE_CCY, pair_name)
                      /\ last_resp' = resp
                      /\ calls' = [calls EXCEPT !.find = Append(@, row),
                                                !.ticker = Append(@, row)]
                      /\ IF price.raised
                         THEN RowRaises(row)
                         ELSE /\ cells_to_update' =
                                     Append(cells_to_update,
                                            Cell(row, OUT_COL, Num(price.value)))
                              /\ UNCHANGED <<log, pc, exc>>
    /\ idx' = idx + 1
    /\ UNCHANGED <<harnessVars, env, clock, col, refreshVars, batch>>

\* one update call per staged cell
FinishPass_PerCell ==
    /\ pc = "rows"
    /\ idx > Len(col) - 1
    /\ batch' = cells_to_update
    /\ calls' = [calls EXCEPT !.writes = @ + Len(cells_to_update)]
    /\ pc' = "sleep"
    /\ UNCHANGED <<harnessVars, env, clock, cacheVars, col, refreshVars, idx, cells_to_update,
                   last_resp, exc, log>>

\* update_cells is called whatever was staged
FinishPass_Unguarded ==
    /\ pc = "rows"
    /\ idx > Len(col) - 1
    /\ batch' = cells_to_update
    /\ calls' = [calls EXCEPT !.writes = @ + 1]
    /\ \/ /\ pc' = "sleep"
          /\ log' = log \cup {"Updated price cells"}
          /\ UNCHANGED exc
       \/ IterationFailed("write", {})
    /\ UNCHANGED <<harnessVars, env, clock, cacheVars, col, refreshVars, idx,
                   cells_to_update, last_resp>>

\* if cells_to_update: ws.update_cells(cells_to_update, ...)
FinishPass ==
    /\ pc = "rows"
    /\ idx > Len(col) - 1
    /\ IF cells_to_update # <<>>
       THEN /\ batch' = cells_to_update
            /\ calls' = [calls EXCEPT !.writes = @ + 1]
            /\ \/ /\ pc' = "sleep"
                  /\ log' = log \cup {"Updated price cells"}
                  /\ UNCHANGED exc
               \/ IterationFailed("write", {})
       ELSE /\ pc' = "sleep"
            /\ UNCHANGED <<batch, calls, exc, log>>
    /\ UNCHANGED <<harnessVars, env, clock, cacheVars, col, refreshVars, idx, cells_to_update,
                   last_resp>>

----------------------------------------------------------------------------
(* main: time.sleep(POLL_INTERVAL_SECS) and the next turn, src/main.py:165-170 *)

Sleep ==
    /\ pc = "sleep"
    /\ clock' = Min(clock + POLL_INTERVAL_SECS, MaxClock)
    /\ pc' = "update"
    /\ col' = <<>>
    /\ old_pairs' = EmptyMap
    /\ cat_resp' = NoCatResp
    /\ ridx' = 1
    /\ mapping' = EmptyMap
    /\ idx' = 1
    /\ cells_to_update' = <<>>
    /\ calls' = ZeroCalls
    /\ last_resp' = NoTickResp
    /\ exc' = "none"
    /\ batch' = <<>>
    /\ log' = {}
    /\ UNCHANGED <<harnessVars, env, cacheVars>>

----------------------------------------------------------------------------

Next ==
    \/ GetClient
    \/ OpenSpreadsheet
    \/ ReadColumn
    \/ RefreshCheck
    \/ RefreshEntry
    \/ RefreshCommit
    \/ ProcessRow
    \/ FinishPass
    \/ Sleep

Spec == Init /\ [][Next]_vars

\* the single thread always runs its next statement, and every call it makes
\* returns or raises (each HTTP request carries REQUEST_TIMEOUT)
FairSpec ==
    /\ Spec
    /\ WF_vars(ReadColumn)
    /\ WF_vars(RefreshCheck)
    /\ WF_vars(RefreshEntry)
    /\ WF_vars(RefreshCommit)
    /\ WF_vars(ProcessRow)
    /\ WF_vars(FinishPass)
    /\ WF_vars(Sleep)

----------------------------------------------------------------------------
(* find_pair called on its own: a catalog is loaded by refresh_if_needed's   *)
(* loop (lines 80-86), then find_pair (lines 89-103) is called once with    *)
(* arguments drawn from a bounded set.                                       *)

\* sequences over S of length at most n
SeqsUpTo(S, n) == UNION {[1..k -> S] : k \in 0..n}

\* base arguments: the symbols of the documentation and every short string
\* over a small alphabet with blanks, lower and upper case, X and Z
RawInputs ==
    { BTC, <<"b","i","t","c","o","i","n">>, eth_padded, NOPE,
      <<"B","i","t","c","o","i","n"," ","C","a","s","h">> }
    \cup SeqsUpTo({" ", "x", "T", "Z"}, MaxSymLen)

\* quote arguments: QUOTE_CCY as configured, unnormalised, and as the catalog
\* spells it
Quotes == {QUOTE_CCY, <<" ", "u", "s", "d">>, <<"Z", "U", "S", "D">>}

CatalogPool == {E_XBTUSD, E_ETHUSD, E_XTZUSD, E_TUSD, E_NoBase}

\* the pairs of a result: a JSON object, so no pair name twice
Catalogs ==
    {c \in SeqsUpTo(CatalogPool, MaxCatalog) :
        \A i, j \in 1..Len(c) : i # j => c[i] # c[j]}

\* refresh_if_needed has received a well-formed AssetPairs result
LookupInit ==
    /\ env = [creds |-> "valid", openable |-> TRUE]
    /\ pc = "refresh_loop"
    /\ clock = StartTime
    /\ pairs_by_base_quote = EmptyMap
    /\ last_refresh = 0
    /\ refreshed = FALSE
    /\ col = <<>>
    /\ old_pairs = EmptyMap
    /\ cat_resp \in {CatResp(TRUE, FALSE, TRUE, c) : c \in Catalogs}
    /\ ridx = 1
    /\ mapping = EmptyMap
    /\ idx = 1
    /\ cells_to_update = <<>>
    /\ calls = [ZeroCalls EXCEPT !.catalog = 1]
    /\ last_resp = NoTickResp
    /\ exc = "none"
    /\ batch = <<>>
    /\ log = {"Refreshing"}
    /\ call \in [base_input : RawInputs, quote : Quotes]
    /\ ret = NoRet

\* PAIR_CACHE.find_pair(call.base_input, call.quote)
CallFindPair ==
    /\ pc = "rows"
    /\ \E pair_name \in {find_pair(pairs_by_base_quote, call.base_input, call.quote)} :
          /\ ret' = [base_norm |-> base_norm(call.base_input),
                     pair_name |-> pair_name]
          /\ find_pair_effect(call.base_input, call.quote, pair_name)
    /\ pc' = "returned"
    /\ UNCHANGED <<env, clock, col, refreshVars, rowVars, calls, exc, log, call>>

LookupNext ==
    \/ RefreshEntry
    \/ RefreshCommit
    \/ CallFindPair

LookupSpec == LookupInit /\ [][LookupNext]_vars

----------------------------------------------------------------------------
(* Vocabulary of the properties *)

\* worksheet rows (row 1 is the header) whose column-A content is not blank
NonBlankRows(c) == {r \in 2..Len(c) : \E i \in 1..Len(c[r]) : c[r][i] \notin Whitespace}

CellsAt(cells, r) == {i \in 1..Len(cells) : cells[i].row = r}
RowsOf(cells) == [i \in 1..Len(cells) |-> cells[i].row]

\* the Ticker answer is one the price fetcher cannot turn into a number
TickerFails(resp) ==
    \/ ~resp.http_ok
    \/ resp.error
    \/ ~resp.has_result
    \/ ~resp.has_c
    \/ resp.last_trade = <<>>
    \/ \E i \in 1..Len(resp.last_trade) : ~IsDigit(resp.last_trade[i])

\* the AssetPairs answer is one refresh_if_needed cannot load
CatalogFails(resp) ==
    \/ ~resp.http_ok
    \/ resp.error
    \/ ~resp.has_result
    \/ \E i \in 1..Len(resp.pairs) : ~resp.pairs[i].is_dict

\* the pass is inside update_sheet_once after its read, or has just left it
InPass == pc \in {"refresh", "refresh_loop", "rows", "sleep"}

\* the row of the latest ticker request
LastTickerRow == calls.ticker[Len(calls.ticker)]

----------------------------------------------------------------------------
(* C1 *)

\* C1: the batch handed to update_cells holds exactly one cell for every
\* non-blank data row, at that row's index and in column 2, and no cell for a
\* blank row is ever staged; for header + [BTC, "", NOPE, ETH] the written
\* rows are 2, 4 and 5.
C1_BatchCoversNonBlankRows ==
    /\ \A i \in 1..Len(cells_to_update) :
          /\ cells_to_update[i].row \in NonBlankRows(col)
          /\ cells_to_update[i].col = 2
    /\ calls.writes >= 1 =>
          /\ \A r \in NonBlankRows(col) : Cardinality(CellsAt(batch, r)) = 1
          /\ \A i \in 1..Len(batch) :
                batch[i].row \in NonBlankRows(col) /\ batch[i].col = 2
          /\ col = ExampleColumn => RowsOf(batch) = <<2, 4, 5>>

C1_Witness ==
    /\ calls.writes = 1
    /\ col = ExampleColumn
    /\ RowsOf(batch) = <<2, 4, 5>>

----------------------------------------------------------------------------
(* C2 *)

\* C2: when the ticker request of a resolved row fails in any way, the cell
\* staged for that row is "ERR" and no number, the exception does not leave
\* the loop, and the rows after it are still processed and staged.
C2_TickerFailureStagesERR ==
    (last_resp.sent /\ TickerFails(last_resp)) =>
        /\ Cardinality(CellsAt(cells_to_update, LastTickerRow)) = 1
        /\ \A i \in CellsAt(cells_to_update, LastTickerRow) :
              cells_to_update[i].value = Str("ERR")
        /\ pc \in {"rows", "sleep"}
        /\ exc \in {"none", "write"}
        /\ pc = "sleep" => idx = Len(col)
        /\ \A q \in NonBlankRows(col) :
              (q > LastTickerRow /\ q < idx + 1) =>
                  CellsAt(cells_to_update, q) # {}

C2_Witness ==
    /\ last_resp.sent /\ last_resp.http_ok /\ last_resp.error
    /\ pc = "sleep"
    /\ \E i \in 1..Len(cells_to_update) :
          /\ cells_to_update[i].row = LastTickerRow
          /\ cells_to_update[i].value = Str("ERR")
          /\ \E j \in 1..Len(cells_to_update) :
                cells_to_update[j].row > LastTickerRow

----------------------------------------------------------------------------
(* C3 *)

\* C3: a non-blank row for which find_pair finds no pair gets the cell "N/A",
\* no ticker is requested for it, and the loop goes on with the next row.
C3_NotFoundStagesNA ==
    \A k \in 1..Len(calls.find) :
        LET r == calls.find[k]
        IN  find_pair(pairs_by_base_quote, Strip(col[r]), QUOTE_CCY) = None =>
               /\ Cardinality(CellsAt(cells_to_update, r)) = 1
               /\ \A i \in CellsAt(cells_to_update, r) :
                     cells_to_update[i].value = Str("N/A")
               /\ \A t \in 1..Len(calls.ticker) : calls.ticker[t] # r
               /\ pc \in {"rows", "sleep"}
               /\ exc \in {"none", "write"}
               /\ pc = "sleep" => idx = Len(col)

C3_Witness ==
    /\ pc = "sleep"
    /\ \E i \in 1..Len(cells_to_update) :
          /\ cells_to_update[i].value = Str("N/A")
          /\ cells_to_update[i].row \notin {calls.ticker[t] : t \in 1..Len(calls.ticker)}
          /\ \E j \in 1..Len(cells_to_update) :
                cells_to_update[j].row > cells_to_update[i].row

----------------------------------------------------------------------------
(* C4 *)

\* a provider error happened in the pass that has just ended
ProviderErrorInPass ==
    \/ cat_resp.sent /\ CatalogFails(cat_resp)
    \/ last_resp.sent /\ TickerFails(last_resp)

----------------------------------------------------------------------------
(* C5 *)

StoredKey(e) == <<StripXZ(e.base), StripXZ(e.quote)>>
StoredAt(ps) ==
    {i \in 1..Len(ps) : StripXZ(ps[i].base) # <<>> /\ StripXZ(ps[i].quote) # <<>>}

\* the mapping a catalog stands for: each key names the last entry that has it
CatalogMapping(ps) ==
    [k \in {StoredKey(ps[i]) : i \in StoredAt(ps)} |->
        ps[CHOOSE i \in StoredAt(ps) :
              /\ StoredKey(ps[i]) = k
              /\ \A j \in StoredAt(ps) : StoredKey(ps[j]) = k => j <= i].name]

\* C5: a refresh is all or nothing.  Until it has succeeded, and after it has
\* failed at any point, the cache is the mapping it was when refresh_if_needed
\* was called; after it has succeeded the cache is the mapping of the new
\* catalog alone.
C5_RefreshAllOrNothing ==
    /\ pc = "refresh_loop" => pairs_by_base_quote = old_pairs
    /\ (cat_resp.sent /\ CatalogFails(cat_resp)) => pairs_by_base_quote = old_pairs
    /\ (pc = "rows" /\ ~cat_resp.sent) => pairs_by_base_quote = old_pairs
    /\ (cat_resp.sent /\ ~CatalogFails(cat_resp) /\ pc # "refresh_loop") =>
          /\ pairs_by_base_quote = CatalogMapping(cat_resp.pairs)
          /\ last_refresh = clock

C5_Witness ==
    /\ exc = "refresh"
    /\ cat_resp.sent /\ cat_resp.http_ok /\ ~cat_resp.error /\ cat_resp.has_result
    /\ ridx > 1
    /\ mapping # EmptyMap
    /\ old_pairs # EmptyMap
    /\ mapping # old_pairs
    /\ pairs_by_base_quote = old_pairs

----------------------------------------------------------------------------
(* C6 *)

Running == pc \notin {"auth", "open", "aborted"}

\* C6: the scheduler never leaves the running state, whatever a pass raises,
\* and every pass that has ended, normally or with an exception, is followed by
\* another pass.
C6_RunsForever ==
    /\ [][Running => Running']_vars
    /\ Running ~> (pc = "sleep")
    /\ (pc = "sleep") ~> (calls.reads = 1)

C6_Witness ==
    /\ pc = "sleep"
    /\ exc = "write"
    /\ clock > StartTime

----------------------------------------------------------------------------
(* C7 *)

StartupFails == env.creds # "valid" \/ ~env.openable

\* C7: when the credential payload is missing or unusable or the spreadsheet
\* cannot be opened, the process aborts during startup and performs no
\* worksheet read, provider request or worksheet write; the process aborts
\* nowhere else.
C7_StartupFatal ==
    /\ [](StartupFails =>
             /\ ~Running
             /\ calls = ZeroCalls
             /\ ~refreshed
             /\ batch = <<>>
             /\ (env.creds # "valid" /\ pc # "auth") => pc = "aborted"
             /\ pc \notin {"auth", "open"} => pc = "aborted")
    /\ [][pc' = "aborted" => pc \in {"auth", "open"}]_vars

C7_Witness ==
    /\ pc = "aborted"
    /\ env.creds = "valid"
    /\ ~env.openable

----------------------------------------------------------------------------
(* C8 *)

\* C8: find_pair is called only after some refresh has completed
\* successfully: no row is looked up, and the row loop is not entered, while
\* no refresh has yet succeeded.
C8_NoLookupBeforeRefresh ==
    /\ calls.find # <<>> => refreshed
    /\ pc = "rows" => refreshed
    /\ ~refreshed => (cells_to_update = <<>> /\ pairs_by_base_quote = EmptyMap)

C8_Witness ==
    /\ calls.find # <<>>
    /\ refreshed
    /\ ~cat_resp.sent
    /\ clock > StartTime

----------------------------------------------------------------------------
(* C9 *)

XXBT == <<"X", "X", "B", "T">>
ZUSD == <<"Z", "U", "S", "D">>

\* the entries of the catalog just loaded that have base XXBT and quote ZUSD
XbtUsdEntries ==
    {i \in 1..Len(cat_resp.pairs) :
        cat_resp.pairs[i].base = XXBT /\ cat_resp.pairs[i].quote = ZUSD}

RefreshJustSucceeded ==
    cat_resp.sent /\ ~CatalogFails(cat_resp) /\ pc \in {"rows", "sleep"}

\* C9: after a successful refresh from a catalog with an entry of base XXBT
\* and quote ZUSD, find_pair("BTC", "USD") returns that entry's pair
\* identifier, and not None.
C9_RoundTrip ==
    (RefreshJustSucceeded /\ XbtUsdEntries # {}) =>
        /\ find_pair(pairs_by_base_quote, BTC, <<"U", "S", "D">>) # None
        /\ \E i \in XbtUsdEntries :
              find_pair(pairs_by_base_quote, BTC, <<"U", "S", "D">>)
                  = cat_resp.pairs[i].name

C9_Witness ==
    /\ RefreshJustSucceeded
    /\ XbtUsdEntries # {}
    /\ find_pair(pairs_by_base_quote, BTC, <<"U", "S", "D">>) = "XXBTZUSD"

----------------------------------------------------------------------------
(* C10 *)

\* C10: a pass reads the worksheet exactly once and writes it at most once;
\* it requests the catalog at most once and a ticker at most once per row,
\* and only for non-blank rows that resolved to a pair.
C10_CallBounds ==
    /\ calls.reads <= 1
    /\ InPass => calls.reads = 1
    /\ calls.writes <= 1
    /\ calls.catalog <= 1
    /\ \A i, j \in 1..Len(calls.ticker) :
          i # j => calls.ticker[i] # calls.ticker[j]
    /\ \A i \in 1..Len(calls.ticker) :
          /\ calls.ticker[i] \in NonBlankRows(col)
          /\ find_pair(pairs_by_base_quote, col[calls.ticker[i]], QUOTE_CCY) # None
    /\ calls.ticker # <<>> => pc \in {"rows", "sleep"}

C10_Witness ==
    /\ pc = "sleep"
    /\ calls.reads = 1
    /\ calls.writes = 1
    /\ calls.catalog = 1
    /\ Len(calls.ticker) = 2
    /\ Len(cells_to_update) = 3
    /\ \E i \in 1..Len(cells_to_update) : cells_to_update[i].value = Str("ERR")

----------------------------------------------------------------------------
(* C11 *)

\* a step in which update_sheet_once calls find_pair
FindPairCalled == Len(calls'.find) = Len(calls.find) + 1

\* a step in which refresh_if_needed commits a loaded catalog
SuccessfulRefresh == pc = "refresh_loop" /\ pc' = "rows" /\ refreshed'

\* C11: a find_pair call changes neither the cached mapping nor the refresh
\* timestamp, and what its answers depend on (the mapping) changes only in a
\* successful refresh, so that two calls with the same input and no
\* successful refresh in between answer the same.
C11_FindPairReadOnly ==
    [][ /\ FindPairCalled =>
              /\ pairs_by_base_quote' = pairs_by_base_quote
              /\ last_refresh' = last_refresh
        /\ pairs_by_base_quote' # pairs_by_base_quote => SuccessfulRefresh
      ]_vars

\* two rows with the same symbol were looked up in one pass, on a loaded catalog
C11_Witness ==
    /\ Len(calls.find) = 2
    /\ Len(col) = 3
    /\ Strip(col[2]) = Strip(col[3])
    /\ pairs_by_base_quote # EmptyMap
    /\ \A i \in 1..2 : cells_to_update[i].value = Num(42)

----------------------------------------------------------------------------
(* C12 *)

\* t is s without its leading and trailing whitespace, in upper case
IsTrimmedUpperOf(s, t) ==
    \E i \in 1..(Len(s) + 1) : \E j \in (i - 1)..Len(s) :
        /\ \A k \in 1..(i - 1) : s[k] \in Whitespace
        /\ \A k \in (j + 1)..Len(s) : s[k] \in Whitespace
        /\ i <= j => s[i] \notin Whitespace /\ s[j] \notin Whitespace
        /\ Len(t) = j - i + 1
        /\ \A k \in 1..Len(t) :
              \/ t[k] = s[i + k - 1] /\ \A n \in 1..Len(Lowers) : Lowers[n] # t[k]
              \/ \E n \in 1..Len(Lowers) : Lowers[n] = s[i + k - 1] /\ Uppers[n] = t[k]

\* C12: the normalised base of any string s is the alias of trim(upper(s)) when
\* the alias table has it and trim(upper(s)) otherwise; "BTC", "bitcoin" and
\* " eth " normalise to XBT, XBT and ETH.
C12_NormalizationTotal ==
    pc = "returned" =>
        LET s == call.base_input
            r == ret.base_norm
        IN  /\ \/ \E p \in BASE_ALIASES : IsTrimmedUpperOf(s, p[1]) /\ r = p[2]
               \/ /\ IsTrimmedUpperOf(s, r)
                  /\ \A p \in BASE_ALIASES : p[1] # r
            /\ s = BTC => r = <<"X", "B", "T">>
            /\ s = <<"b","i","t","c","o","i","n">> => r = <<"X", "B", "T">>
            /\ s = eth_padded => r = ETH

C12_Witness ==
    /\ pc = "returned"
    /\ call.base_input = <<"B","i","t","c","o","i","n"," ","C","a","s","h">>
    /\ ret.base_norm = <<"B", "C", "H">>

----------------------------------------------------------------------------
(* C13 *)

\* C13: while the cached mapping is empty, find_pair answers "no pair" for
\* every base and quote.
C13_EmptyCacheFindsNothing ==
    (pc = "returned" /\ pairs_by_base_quote = EmptyMap) => ret.pair_name = None

C13_Witness ==
    /\ pc = "returned"
    /\ pairs_by_base_quote = EmptyMap
    /\ call.base_input = BTC
    /\ ret.pair_name = None

----------------------------------------------------------------------------
(* C14 *)

\* a refresh is due: the mapping is empty or its age has reached the TTL
RefreshDue ==
    \/ pairs_by_base_quote = EmptyMap
    \/ clock - last_refresh >= ASSET_PAIRS_REFRESH_SECS

\* a step that sends the AssetPairs request
CatalogRequested == calls'.catalog = calls.catalog + 1

\* C14: refresh_if_needed sends the AssetPairs request exactly when the
\* mapping is empty or at least ASSET_PAIRS_REFRESH_SECS old; otherwise it
\* sends nothing and leaves the mapping and the timestamp as they are.
C14_RefreshIffDue ==
    [][ pc = "refresh" =>
          /\ CatalogRequested <=> RefreshDue
          /\ ~RefreshDue =>
                /\ calls'.catalog = calls.catalog
                /\ cat_resp' = cat_resp
                /\ pairs_by_base_quote' = pairs_by_base_quote
                /\ last_refresh' = last_refresh
      ]_vars

\* a loaded, non-empty mapping whose age is exactly the TTL is being reloaded
C14_Witness ==
    /\ pc = "refresh_loop"
    /\ cat_resp.sent
    /\ old_pairs # EmptyMap
    /\ clock - last_refresh = ASSET_PAIRS_REFRESH_SECS

----------------------------------------------------------------------------
(* C15 *)

\* find_pair with the second key built by the transformation of the refresh
find_pair_AsClaimed(pairs, base_input, quote) ==
    LET base_up == Strip(Upper(base_input))
        quote_norm == Strip(Upper(quote))
        keys == << <<base_norm(base_input), quote_norm>>,
                   <<StripXZ(base_norm(base_input)), StripXZ(quote_norm)>>,
                   <<base_up, quote_norm>> >>
        hits == {i \in 1..Len(keys) : keys[i] \in DOMAIN pairs}
    IN  IF hits = {} THEN None
        ELSE pairs[keys[CHOOSE i \in hits : \A j \in hits : i <= j]]

\* C15: find_pair answers the identifier under the first present key of
\* (normalised base, quote), (both with the refresh's stripping re-applied),
\* (upper-cased raw base, quote), and "no pair" exactly when none is present.
C15_AsClaimed ==
    pc = "returned" =>
        ret.pair_name = find_pair_AsClaimed(pairs_by_base_quote,
                                            call.base_input, call.quote)

----------------------------------------------------------------------------
(* C16 *)

\* the code without its single-letter prefix, a leading X or Z
StripPrefix(code) ==
    IF code # <<>> /\ Head(code) \in {"X", "Z"} THEN Tail(code) ELSE code

\* C16: after a successful refresh every catalog entry with a base and a quote
\* is keyed by its base and quote without their leading X or Z, every other
\* character kept (XXBT as XBT, ZUSD as USD).
C16_AsClaimed ==
    RefreshJustSucceeded =>
        \A i \in 1..Len(cat_resp.pairs) :
            LET e == cat_resp.pairs[i]
            IN  (e.base # <<>> /\ e.quote # <<>>) =>
                    <<StripPrefix(e.base), StripPrefix(e.quote)>>
                        \in DOMAIN pairs_by_base_quote

----------------------------------------------------------------------------
(* C17 *)

PassStates == {"update", "refresh", "refresh_loop", "rows"}

\* C17: the first thing done after startup is a pass; a pass starts only after
\* startup or after a sleep; every pass, completed or raised, ends in the
\* sleep; the sleep lasts one poll interval and is followed by a pass; time
\* passes in the sleep only.
C17_FixedDelay ==
    [][ /\ (pc = "open" /\ pc' # "aborted") => pc' = "update"
        /\ pc' = "update" => pc \in {"open", "sleep"}
        /\ pc = "update" => calls'.reads = calls.reads + 1
        /\ (pc \in PassStates /\ pc' \notin PassStates) => pc' = "sleep"
        /\ pc = "sleep" =>
              /\ pc' = "update"
              /\ clock' = Min(clock + POLL_INTERVAL_SECS, MaxClock)
        /\ clock' # clock => pc = "sleep"
      ]_vars

\* the second pass raised and the loop is at its sleep
C17_Witness ==
    /\ pc = "sleep"
    /\ exc = "read"
    /\ clock = StartTime + POLL_INTERVAL_SECS

----------------------------------------------------------------------------
(* C18 *)

\* update_sheet_once has returned normally with nothing staged
ReturnedEmpty == pc = "sleep" /\ exc = "none" /\ cells_to_update = <<>>

\* C18 as stated: an invocation that stages no cells writes nothing and logs
\* that nothing was found.
C18_AsClaimed ==
    ReturnedEmpty => (calls.writes = 0 /\ "No tickers found" \in log)

\* C18, amended: an invocation that returns with no cells staged writes
\* nothing; it logs that nothing was found exactly when the column is empty or
\* holds only the header, and then it has not called refresh_if_needed; with
\* data rows that are all blank it logs no such message.
C18_NoCellsNoWrite ==
    ReturnedEmpty =>
        /\ calls.writes = 0
        /\ batch = <<>>
        /\ "Updated price cells" \notin log
        /\ "No tickers found" \in log <=> Len(col) <= 1
        /\ Len(col) <= 1 => calls.catalog = 0
        /\ Len(col) > 1 => NonBlankRows(col) = {}

\* a column with blank data rows only: nothing written, nothing logged as found
C18_Witness ==
    /\ ReturnedEmpty
    /\ Len(col) = 3
    /\ calls.catalog = 1
    /\ "No tickers found" \notin log

----------------------------------------------------------------------------
(* C19 *)

\* code is wanted, or wanted after one leading prefix letter
MatchesCode(code, wanted) ==
    \/ code = wanted
    \/ code # <<>> /\ Head(code) \in {"X", "Z"} /\ Tail(code) = wanted

\* C19: a pair that find_pair answers is an entry of the loaded catalog whose
\* base is the normalised or upper-cased raw base and whose quote is the
\* upper-cased quote, each with or without one leading prefix letter.
C19_AsClaimed ==
    (pc = "returned" /\ ret.pair_name # None) =>
        \E i \in 1..Len(cat_resp.pairs) :
            LET e == cat_resp.pairs[i]
            IN  /\ e.name = ret.pair_name
                /\ \/ MatchesCode(e.base, ret.base_norm)
                   \/ MatchesCode(e.base, Strip(Upper(call.base_input)))
                /\ MatchesCode(e.quote, Strip(Upper(call.quote)))

----------------------------------------------------------------------------
(* C20 *)

\* a step in which refresh_if_needed raises
RefreshFails == exc # "refresh" /\ exc' = "refresh"

\* C20: a refresh that fails leaves the timestamp and the mapping as they
\* were, so the refresh stays due; a due refresh stays due until a refresh
\* succeeds, and every pass that reaches refresh_if_needed while it is due
\* sends the request; the timestamp changes only in a successful refresh, to
\* the time of the call and together with the mapping.
C20_FailedRefreshRetried ==
    [][ /\ RefreshFails =>
              /\ last_refresh' = last_refresh
              /\ pairs_by_base_quote' = pairs_by_base_quote
              /\ RefreshDue'
        /\ (RefreshDue /\ ~SuccessfulRefresh) => RefreshDue'
        /\ (RefreshDue /\ pc = "refresh") => CatalogRequested
        /\ last_refresh' # last_refresh =>
              (SuccessfulRefresh /\ pairs_by_base_quote' = mapping)
        /\ SuccessfulRefresh => last_refresh' = clock
      ]_vars

\* a loaded mapping has outlived its TTL by a whole pass and the request of
\* this pass failed as well
C20_Witness ==
    /\ pc = "sleep"
    /\ exc = "refresh"
    /\ cat_resp.sent
    /\ pairs_by_base_quote # EmptyMap
    /\ clock - last_refresh >= ASSET_PAIRS_REFRESH_SECS + POLL_INTERVAL_SECS

====
